---------------------------- MODULE Spec2Model ----------------------------
(***************************************************************************)
(* Model of the pixel-art pipeline of GIF-to-Pixel-ASCII:                  *)
(*   src/pixelart_converter.py  downsample_image, kmeans_color_quantization*)
(*   src/gui_pixelart.py        PixelArtGUI.do_processing (the batch loop) *)
(*   src/asciiart_converter.py  image_to_ascii (size of the character grid)*)
(*                                                                         *)
(* Colours are RGB triples <<r, g, b>> of 8-bit channel values.  A centroid*)
(* is the exact rational vector s/n, kept as [s |-> <<..>>, n |-> count]   *)
(* (numpy holds it in float32; the model computes the same means, distance *)
(* comparisons and displacement test in exact arithmetic).  Python's       *)
(* 0-based indices k appear here as k+1.                                   *)
(***************************************************************************)
EXTENDS Integers, Sequences, FiniteSets, TLC

\* ------------------------------------------------------------- bounds
MaxPixels == 4      \* images hold 1..MaxPixels pixels
MaxK == 3           \* num_colors ranges over 1..MaxK
MaxIter == 2        \* max_iterations ranges over 0..MaxIter
MaxPairPixels == 3  \* images of at most this size are run twice and compared
MaxSkip == 1        \* np.random outputs other code may consume between two runs
MaxSrc == 4         \* source image sides range over 1..MaxSrc
MaxTarget == 3      \* target sides range over 1..MaxTarget
MaxFrames == 5      \* a batch holds 1..MaxFrames frames

\* The colours pixels are drawn from: black (the letterbox fill), a green of
\* brightness exactly 30, a red of brightness 31, and a light grey.
Colors == { <<0, 0, 0>>, <<0, 90, 0>>, <<93, 0, 0>>, <<200, 200, 200>> }

\* bg_threshold values tried: the default of kmeans_color_quantization.
Thresholds == { 30 }

VARIABLES
    image,              \* pixels: the flattened (N, 3) array of the input image
    num_colors,         \* K
    max_iterations,
    ignore_background,
    bg_threshold,
    pc,                 \* position of the run inside kmeans_color_quantization
    quantize_pixels,    \* the training set
    fallback,           \* the "Using all pixels instead..." warning was printed
    cluster_centers,    \* sequence of K centroids
    old_centers,        \* cluster_centers before the last update step
    assignments,        \* assignments of the last assignment step (training set)
    reseeded,           \* clusters found empty in the last update step
    iteration,          \* loop iterations completed
    rng,                \* np.random global state: outputs consumed from the stream
    quantized,          \* quantized_image, flattened
    palette,            \* the returned palette
    brightness_order,   \* the order in which the final palette is printed
    prev,               \* what the previous run returned, and how its input relates
    runs,               \* runs started so far
    random_indices,     \* the K positions drawn at line 125 (0-based)
    pixel_assignments,  \* assignments as recomputed over all pixels in step 5
    phases,             \* engine states entered by the current run, in order
    src_size, target_size, preserve_aspect, ds,  \* downsample_image: input and outcome
    batch,              \* PixelArtGUI.do_processing: the frames and the loop's progress
    ascii,              \* image_to_ascii: sizes given and the grid size computed
    output_file,        \* create_pixel_art: the pixels written to output_path
    extract,            \* the two frame extractors: their input and the frames kept
    gui,                \* PixelArtGUI: button, popups, worker threads
    conv,               \* ASCIIConverterGUI: the processing flag and the workers
    resize              \* resize_with_averaging: sizes given and block ranges used

kvars == << image, num_colors, max_iterations, ignore_background, bg_threshold,
            pc, quantize_pixels, fallback, cluster_centers, old_centers,
            assignments, reseeded, iteration, rng, quantized, palette,
            brightness_order, prev, runs, pixel_assignments, phases,
            random_indices >>
dvars == << src_size, target_size, preserve_aspect, ds >>
bvars == << batch >>
avars == << ascii >>
pvars == << output_file >>
evars == << extract >>
gvars == << gui >>
cvars == << conv >>
rvars == << resize >>
ovars == << pvars, evars, gvars, cvars, rvars >>
vars == << kvars, dvars, bvars, avars, ovars >>

\* ------------------------------------------------------------- helpers
Abs(x) == IF x < 0 THEN -x ELSE x

RECURSIVE SumSeq(_)
SumSeq(s) == IF s = << >> THEN 0 ELSE Head(s) + SumSeq(Tail(s))

RECURSIVE ProdSeq(_)
ProdSeq(s) == IF s = << >> THEN 1 ELSE Head(s) * ProdSeq(Tail(s))

\* The subsequence of s at the positions (in increasing order) where keep holds:
\* numpy's boolean-mask indexing a[mask].
RECURSIVE MaskSelect(_, _)
MaskSelect(s, keep) ==
    IF s = << >> THEN << >>
    ELSE (IF Head(keep) THEN << Head(s) >> ELSE << >>)
         \o MaskSelect(Tail(s), Tail(keep))

\* ------------------------------------------------------------- np.random
\* The low 8 bits of the first outputs of MT19937 after np.random.seed(42)
\* (init_genrand(42)): 1608637542, 3421126067, 4083286876, 787846414, ...
\* Every bounded draw of the model has max < 256, so only these bits are read.
MT42 == << 102, 179, 92, 14, 106, 71, 188, 20, 102, 121, 210, 214, 74, 202,
           87, 116, 99, 103, 151, 130, 149, 52, 1, 87, 235, 157, 37, 129, 191,
           187, 20, 160, 203, 57, 21, 252, 235, 88, 48, 218, 58, 254, 169, 255,
           219, 187, 207, 14 >>

\* next_uint32 at stream position pos (the table is read cyclically).
NextUint(pos) == MT42[(pos % Len(MT42)) + 1]

\* gen_mask: the smallest 2^b - 1 that is >= max, plus one.
RECURSIVE MaskPlusOne(_, _)
MaskPlusOne(max, m) == IF m - 1 >= max THEN m ELSE MaskPlusOne(max, 2 * m)

\* random_interval / buffered_bounded_masked_uint32: masked rejection sampling
\* of a value in 0..max; max = 0 consumes no output.
RECURSIVE RandomInterval(_, _)
RandomInterval(pos, max) ==
    IF max = 0 THEN [val |-> 0, pos |-> pos]
    ELSE LET v == NextUint(pos) % MaskPlusOne(max, 1)
         IN  IF v <= max THEN [val |-> v, pos |-> pos + 1]
             ELSE RandomInterval(pos + 1, max)

\* RandomState.shuffle on a 1-d array: for i = n-1 down to 1, swap arr[i]
\* with arr[random_interval(i)].
RECURSIVE Shuffle(_, _, _)
Shuffle(arr, i, pos) ==
    IF i < 1 THEN [arr |-> arr, pos |-> pos]
    ELSE LET d == RandomInterval(pos, i)
             swapped == [j \in 1..Len(arr) |->
                            IF j = i + 1 THEN arr[d.val + 1]
                            ELSE IF j = d.val + 1 THEN arr[i + 1]
                            ELSE arr[j]]
         IN  Shuffle(swapped, i - 1, d.pos)

\* np.random.seed(42): the global stream restarts at its first output.
SeedNoReset(pos) == pos
Seed42(pos) == 0

\* k positions drawn independently, as with replace=True
RECURSIVE DrawRepeated(_, _, _, _)
DrawRepeated(pos, n, k, acc) ==
    IF k = 0 THEN [ok |-> TRUE, idx |-> acc, pos |-> pos]
    ELSE LET d == RandomInterval(pos, n - 1)
         IN  DrawRepeated(d.pos, n, k - 1, Append(acc, d.val))
ChoiceWithReplacement(pos, n, k) == DrawRepeated(pos, n, k, << >>)

\* np.random.choice(n, k, replace=False): ValueError when k > n, otherwise the
\* first k entries of permutation(n).
Choice(pos, n, k) ==
    IF k > n THEN [ok |-> FALSE, idx |-> << >>, pos |-> pos]
    ELSE LET sh == Shuffle([j \in 1..n |-> j - 1], n - 1, pos)
         IN  [ok |-> TRUE, idx |-> SubSeq(sh.arr, 1, k), pos |-> sh.pos]

\* np.random.randint(n): a value in 0..n-1.
RandInt(pos, n) == RandomInterval(pos, n - 1)


\* ------------------------------------------------------------- step 2.5
\* brightness = np.mean(pixels, axis=1); foreground_mask = brightness > bg_threshold.
\* (r + g + b) / 3 > t is compared as r + g + b > 3 * t.
MaskGe(pixels, thr) ==
    [i \in 1..Len(pixels) |-> pixels[i][1] + pixels[i][2] + pixels[i][3] >= 3 * thr]
ForegroundMask(pixels, thr) ==
    [i \in 1..Len(pixels) |-> pixels[i][1] + pixels[i][2] + pixels[i][3] > 3 * thr]

ForegroundPixels(pixels, thr) == MaskSelect(pixels, ForegroundMask(pixels, thr))

\* The training set: foreground pixels, or all pixels when filtering is off or
\* fewer than K pixels are foreground (the warning is printed then).
UseFallback(pixels, k, ignore, thr) ==
    ignore /\ Len(ForegroundPixels(pixels, thr)) < k

TrainOnAll(pixels, k, ignore, thr) == pixels
QuantizePixels(pixels, k, ignore, thr) ==
    IF ignore
    THEN IF Len(ForegroundPixels(pixels, thr)) < k
         THEN pixels
         ELSE ForegroundPixels(pixels, thr)
    ELSE pixels

\* ------------------------------------------------------------- distances
\* A pixel taken as a centroid: quantize_pixels[i].copy().
AsCenter(p) == [s |-> p, n |-> 1]

\* Squared Euclidean distance from pixel p to centroid c, times c.n^2.
Dist2Num(p, c) ==
    (p[1] * c.n - c.s[1]) * (p[1] * c.n - c.s[1])
  + (p[2] * c.n - c.s[2]) * (p[2] * c.n - c.s[2])
  + (p[3] * c.n - c.s[3]) * (p[3] * c.n - c.s[3])

\* distance(p, c1) < distance(p, c2); sqrt is monotone, so squares are compared.
Nearer(p, c1, c2) ==
    Dist2Num(p, c1) * c2.n * c2.n < Dist2Num(p, c2) * c1.n * c1.n

\* np.argmin over the K distances of one pixel: the first index of the minimum.
RECURSIVE ArgMinScan(_, _, _, _)
ArgMinScan(p, centers, k, best) ==
    IF k > Len(centers) THEN best
    ELSE ArgMinScan(p, centers, k + 1,
                    IF Nearer(p, centers[k], centers[best]) THEN k ELSE best)

\* the last index of the minimum
RECURSIVE ArgMinLastScan(_, _, _, _)
ArgMinLastScan(p, centers, k, best) ==
    IF k > Len(centers) THEN best
    ELSE ArgMinLastScan(p, centers, k + 1,
                        IF Nearer(p, centers[best], centers[k]) THEN best ELSE k)
ArgMinLast(p, centers) == ArgMinLastScan(p, centers, 2, 1)

ArgMax(p, centers) ==
    CHOOSE k \in 1..Len(centers) :
        \A j \in 1..Len(centers) : ~Nearer(p, centers[k], centers[j])
ArgMin(p, centers) == ArgMinScan(p, centers, 2, 1)

\* np.argmin(distances, axis=1) raises ValueError ("attempt to get argmin of an
\* empty sequence") when distances has K = 0 columns.
ArgMinRaises(centers) == Len(centers) = 0

\* 4a / step 5: the nearest centroid of every pixel.
Assign(pixels, centers) == [i \in 1..Len(pixels) |-> ArgMin(pixels[i], centers)]

\* ------------------------------------------------------------- update step
Members(asg, k) == { i \in 1..Len(asg) : asg[i] = k }

RECURSIVE SumChannel(_, _, _)
SumChannel(pixels, idx, ch) ==
    IF idx = {} THEN 0
    ELSE LET i == CHOOSE x \in idx : TRUE
         IN  pixels[i][ch] + SumChannel(pixels, idx \ {i}, ch)

SumOf(pixels, idx) ==
    [s |-> << SumChannel(pixels, idx, 1), SumChannel(pixels, idx, 2),
              SumChannel(pixels, idx, 3) >>,
     n |-> 1]
\* np.mean(quantize_pixels[mask], axis=0)
MeanOf(pixels, idx) ==
    [s |-> << SumChannel(pixels, idx, 1), SumChannel(pixels, idx, 2),
              SumChannel(pixels, idx, 3) >>,
     n |-> Cardinality(idx)]

\* 4b: for k = 0..K-1 in order, the mean of the members of cluster k, or, for
\* an empty cluster, quantize_pixels[np.random.randint(N)].
\* new_cluster_centers[k] = quantize_pixels[np.random.randint(len(quantize_pixels))]
ReseedZero(pixels, pos) == [center |-> AsCenter(<< 0, 0, 0 >>), pos |-> pos]
Reseed(pixels, pos) ==
    LET d == RandInt(pos, Len(pixels))
    IN  [center |-> AsCenter(pixels[d.val + 1]), pos |-> d.pos]

RECURSIVE UpdateScan(_, _, _, _, _, _)
UpdateScan(pixels, asg, nk, k, acc, pos) ==
    IF k > nk THEN [centers |-> acc.centers, reseeded |-> acc.reseeded, pos |-> pos]
    ELSE IF Members(asg, k) # {}
         THEN UpdateScan(pixels, asg, nk, k + 1,
                  [centers |-> Append(acc.centers, MeanOf(pixels, Members(asg, k))),
                   reseeded |-> acc.reseeded], pos)
         ELSE LET d == Reseed(pixels, pos)
              IN  UpdateScan(pixels, asg, nk, k + 1,
                      [centers |-> Append(acc.centers, d.center),
                       reseeded |-> acc.reseeded \cup {k}], d.pos)

\* empty clusters are dropped instead of reseeded
UpdateDropEmpty(pixels, asg, nk, pos) ==
    LET ks == { k \in 1..nk : Members(asg, k) # {} }
        nth(j) == CHOOSE k \in ks : Cardinality({ x \in ks : x <= k }) = j
    IN  [centers |-> [j \in 1..Cardinality(ks) |-> MeanOf(pixels, Members(asg, nth(j)))],
         reseeded |-> {}, pos |-> pos]
Update(pixels, asg, nk, pos) ==
    UpdateScan(pixels, asg, nk, 1, [centers |-> << >>, reseeded |-> {}], pos)

\* ------------------------------------------------------------- convergence
\* |new - old| summed over the three channels of one centroid, times new.n * old.n.
L1Num(new, old) ==
    Abs(new.s[1] * old.n - old.s[1] * new.n)
  + Abs(new.s[2] * old.n - old.s[2] * new.n)
  + Abs(new.s[3] * old.n - old.s[3] * new.n)

\* the largest single channel displacement is below 1
ShiftMaxBelowOne(new, old) ==
    \A k \in 1..Len(new) : \A ch \in 1..3 :
        Abs(new[k].s[ch] * old[k].n - old[k].s[ch] * new[k].n) < new[k].n * old[k].n

\* center_shift = np.sum(np.abs(new_cluster_centers - cluster_centers)) < 1.0,
\* with every term brought to the common denominator D = prod_k new[k].n * old[k].n.
ShiftBelowOne(new, old) ==
    LET den == [k \in 1..Len(new) |-> new[k].n * old[k].n]
        D == ProdSeq(den)
    IN  SumSeq([k \in 1..Len(new) |-> L1Num(new[k], old[k]) * (D \div den[k])]) < D

\* ------------------------------------------------------------- step 5
\* np.clip(x, 0, 255).astype(np.uint8) of one channel value s/n: clamp, then
\* truncate toward zero.
ClipToUint8(s, n) ==
    IF s < 0 THEN 0 ELSE IF s > 255 * n THEN 255 ELSE s \div n

\* cluster_centers.astype(np.uint8): truncation and reduction modulo 256.
RoundToUint8(s, n) == ((2 * s + n) \div (2 * n)) % 256
AsUint8(s, n) == (s \div n) % 256

QuantizedColor(c) ==
    << ClipToUint8(c.s[1], c.n), ClipToUint8(c.s[2], c.n), ClipToUint8(c.s[3], c.n) >>

PaletteColor(c) ==
    << AsUint8(c.s[1], c.n), AsUint8(c.s[2], c.n), AsUint8(c.s[3], c.n) >>

\* mean-channel brightness of c1 is below that of c2
Darker(c1, c2) ==
    (c1.s[1] + c1.s[2] + c1.s[3]) * c2.n < (c2.s[1] + c2.s[2] + c2.s[3]) * c1.n

\* np.argsort(np.mean(cluster_centers, axis=1)): indices in ascending order of
\* brightness; equal keys keep index order (numpy sorts fewer than 17 elements
\* by insertion).
RECURSIVE InsertByBrightness(_, _, _)
InsertByBrightness(order, k, centers) ==
    IF order = << >> THEN << k >>
    ELSE IF Darker(centers[k], centers[Head(order)])
         THEN << k >> \o order
         ELSE << Head(order) >> \o InsertByBrightness(Tail(order), k, centers)

RECURSIVE ArgSortScan(_, _, _)
ArgSortScan(centers, k, order) ==
    IF k > Len(centers) THEN order
    ELSE ArgSortScan(centers, k + 1, InsertByBrightness(order, k, centers))

ArgSortBrightness(centers) == ArgSortScan(centers, 1, << >>)

\* What the function returns to its caller: quantized_image in place of the
\* returned image, cluster_centers.astype(np.uint8) as the palette.
SortedPalette(centers) ==
    [i \in 1..Len(centers) |-> PaletteColor(centers[ArgSortBrightness(centers)[i]])]
ReturnedPalette(centers) == [k \in 1..Len(centers) |-> PaletteColor(centers[k])]

QuantizedImage(pixels, centers) ==
    [i \in 1..Len(pixels) |-> QuantizedColor(centers[Assign(pixels, centers)[i]])]

\* ------------------------------------------------------------- downsample_image
\* int(original * scale_ratio) for scale_ratio = num / den (float64 agrees with
\* the exact floor for every side length up to 12).
ScaledSide(orig, num, den) == (orig * num) \div den

\* The outcome of downsample_image for a source of size src = <<w, h>>.
\* Image.resize raises ValueError ("height and width must be > 0") for a side
\* below 1.
\* scale_ratio = min(width_ratio, height_ratio) is width_ratio:
\* tgt[1]/src[1] <= tgt[2]/src[2], cross-multiplied.
UseLargerRatio(src, tgt) == tgt[1] * src[2] >= tgt[2] * src[1]
UseWidthRatio(src, tgt) == tgt[1] * src[2] <= tgt[2] * src[1]

\* x_offset = (target_width - new_width) // 2, and the same for y.
CenterOffset(target, new) == (target - new) \div 2

\* Image.new('RGB', (target_width, target_height), (0, 0, 0)) followed by
\* paste(img_resized, (x_offset, y_offset)): what each pixel of the canvas
\* holds, by its 0-based position <<x, y>>.
Canvas(tgt, content, offset) ==
    [p \in (0..(tgt[1] - 1)) \X (0..(tgt[2] - 1)) |->
        IF /\ offset[1] <= p[1] /\ p[1] < offset[1] + content[1]
           /\ offset[2] <= p[2] /\ p[2] < offset[2] + content[2]
        THEN "content" ELSE "black"]

DownsampleImage(src, tgt, preserve) ==
    IF preserve
    THEN LET widthFirst == UseWidthRatio(src, tgt)
             num == IF widthFirst THEN tgt[1] ELSE tgt[2]
             den == IF widthFirst THEN src[1] ELSE src[2]
             new_width == ScaledSide(src[1], num, den)
             new_height == ScaledSide(src[2], num, den)
             offset == << CenterOffset(tgt[1], new_width),
                          CenterOffset(tgt[2], new_height) >>
         IN  IF new_width < 1 \/ new_height < 1
             THEN [status |-> "error", size |-> << 0, 0 >>,
                   content |-> << new_width, new_height >>, offset |-> << 0, 0 >>,
                   canvas |-> << >>]
             ELSE [status |-> "ok", size |-> tgt,
                   content |-> << new_width, new_height >>,
                   offset |-> offset,
                   canvas |-> Canvas(tgt, << new_width, new_height >>, offset)]
    ELSE [status |-> "ok", size |-> tgt, content |-> tgt, offset |-> << 0, 0 >>,
          canvas |-> Canvas(tgt, tgt, << 0, 0 >>)]

\* ------------------------------------------------------------- loop control
\* for iteration in range(max_iterations): the loop has a pass left after
\* `done` passes.
RangeOneMore(done, n) == done <= n
RangeHasNext(done, n) == done < n

\* Step 5 and the return statement read cluster_centers and never assign it
\* (astype returns a copy).
CentersSortedInPlace(centers) ==
    [i \in 1..Len(centers) |-> centers[ArgSortBrightness(centers)[i]]]
CentersAfterApply(centers) == centers

\* Step 5 measures distances from `pixels`, the whole flattened image, and
\* not from quantize_pixels.
ApplyToTraining(pixels, training) == training
ApplyTo(pixels, training) == pixels

\* ------------------------------------------------------------- state machine
Images == UNION { [1..n -> Colors] : n \in 1..MaxPixels }
PairImages == UNION { [1..n -> Colors] : n \in 1..MaxPairPixels }

NoPrev == [rel |-> "none", status |-> "none", centers |-> << >>,
           palette |-> << >>, quantized |-> << >>, indices |-> << >>]

RunReset ==
    /\ quantize_pixels' = << >>
    /\ fallback' = FALSE
    /\ cluster_centers' = << >>
    /\ old_centers' = << >>
    /\ assignments' = << >>
    /\ reseeded' = {}
    /\ iteration' = 0
    /\ quantized' = << >>
    /\ palette' = << >>
    /\ brightness_order' = << >>
    /\ pixel_assignments' = << >>
    /\ phases' = << >>
    /\ random_indices' = << >>

DownsampleIdle ==
    /\ src_size = << 1, 1 >>
    /\ target_size = << 1, 1 >>
    /\ preserve_aspect = FALSE
    /\ ds = [status |-> "idle", size |-> << 0, 0 >>, content |-> << 0, 0 >>,
             offset |-> << 0, 0 >>, canvas |-> << >>]

BatchIdle == batch = [frames |-> << >>, next |-> 1, output_files |-> << >>,
                      status |-> "idle"]

AsciiIdle == ascii = [status |-> "idle", original |-> << 1, 1 >>,
                      max |-> << 1, 1 >>, size |-> << 0, 0 >>]

PipelineIdle == output_file = << >>

NotExtracted == [done |-> FALSE, kept |-> << >>, forced |-> FALSE]

ExtractIdle == extract = [frames |-> << >>, target_frames |-> 1,
                          min_similarity |-> 0, cli |-> NotExtracted,
                          gui |-> NotExtracted]

GuiIdle == gui = [process_btn |-> "disabled", frame_files |-> FALSE,
                  grab |-> 0, workers |-> << >>, dialog |-> "none"]

ConverterIdle == conv = [processing |-> FALSE, workers |-> << >>,
                         dialog |-> "none"]

ResizeIdle == resize = [status |-> "idle", source |-> << 1, 1 >>,
                        target |-> << 1, 1 >>, rows |-> << >>, cols |-> << >>]

OthersIdle ==
    /\ PipelineIdle
    /\ ExtractIdle
    /\ GuiIdle
    /\ ConverterIdle
    /\ ResizeIdle

\* The state at a call with the image, K and threshold taken from the given sets.
InitArgs(images, ks, thresholds) ==
    /\ image \in images
    /\ num_colors \in ks
    /\ max_iterations \in 0..MaxIter
    /\ ignore_background \in BOOLEAN
    /\ bg_threshold \in thresholds
    /\ pc = "start"
    /\ quantize_pixels = << >>
    /\ fallback = FALSE
    /\ cluster_centers = << >>
    /\ old_centers = << >>
    /\ assignments = << >>
    /\ reseeded = {}
    /\ iteration = 0
    /\ rng = 0
    /\ quantized = << >>
    /\ palette = << >>
    /\ brightness_order = << >>
    /\ prev = NoPrev
    /\ runs = 1
    /\ pixel_assignments = << >>
    /\ phases = << >>
    /\ random_indices = << >>
    /\ DownsampleIdle
    /\ BatchIdle
    /\ AsciiIdle
    /\ OthersIdle

InitWith(images) == InitArgs(images, 1..MaxK, Thresholds)

Init == InitWith(Images)

\* Any other use of the process-wide np.random between two runs.
ExternalDraw ==
    /\ pc = "start"
    /\ \E r \in 0..MaxSkip : r # rng /\ rng' = r
    /\ UNCHANGED << random_indices, image, num_colors, max_iterations, ignore_background,
                    bg_threshold, pc, quantize_pixels, fallback, cluster_centers,
                    old_centers, assignments, reseeded, iteration, quantized,
                    palette, brightness_order, prev, runs, pixel_assignments,
                    phases >>
    /\ UNCHANGED << dvars, bvars, avars, ovars >>

\* Lines 99-120: the choice of the training set.
SelectTraining ==
    /\ pc = "start"
    /\ quantize_pixels' =
           QuantizePixels(image, num_colors, ignore_background, bg_threshold)
    /\ fallback' = UseFallback(image, num_colors, ignore_background, bg_threshold)
    /\ pc' = "selected"
    /\ UNCHANGED << random_indices, image, num_colors, max_iterations, ignore_background,
                    bg_threshold, cluster_centers, old_centers, assignments,
                    reseeded, iteration, rng, quantized, palette,
                    brightness_order, prev, runs, pixel_assignments, phases >>
    /\ UNCHANGED << dvars, bvars, avars, ovars >>

\* Lines 122-126: seed, draw K distinct positions, copy them as centroids.
\* np.random.choice raises ValueError when K exceeds the training-set size.
InitCenters ==
    /\ pc = "selected"
    /\ LET ch == Choice(Seed42(rng), Len(quantize_pixels), num_colors)
       IN  /\ rng' = ch.pos
           /\ random_indices' = ch.idx
           /\ IF ch.ok
              THEN /\ cluster_centers' =
                          [k \in 1..num_colors |->
                              AsCenter(quantize_pixels[ch.idx[k] + 1])]
                   /\ phases' = << "INITIALIZED" >>
                   /\ pc' = "initialized"
              ELSE /\ cluster_centers' = << >>
                   /\ phases' = << >>
                   /\ pc' = "error"
    /\ UNCHANGED << image, num_colors, max_iterations, ignore_background,
                    bg_threshold, quantize_pixels, fallback, old_centers,
                    assignments, reseeded, iteration, quantized, palette,
                    brightness_order, prev, runs, pixel_assignments >>
    /\ UNCHANGED << dvars, bvars, avars, ovars >>

\* Lines 135-171: one pass of the loop body.
Iterate ==
    /\ pc \in {"initialized", "iterating"}
    /\ RangeHasNext(iteration, max_iterations)
    /\ ~ArgMinRaises(cluster_centers)
    /\ LET asg == Assign(quantize_pixels, cluster_centers)
           up == Update(quantize_pixels, asg, num_colors, rng)
           stop == ShiftBelowOne(up.centers, cluster_centers)
           last == ~RangeHasNext(iteration + 1, max_iterations)
           entered == IF pc = "initialized" THEN Append(phases, "ITERATING")
                      ELSE phases
       IN  /\ assignments' = asg
           /\ old_centers' = cluster_centers
           /\ cluster_centers' = up.centers
           /\ reseeded' = up.reseeded
           /\ rng' = up.pos
           /\ iteration' = iteration + 1
           /\ pc' = IF stop THEN "converged"
                    ELSE IF last THEN "limit"
                    ELSE "iterating"
           /\ phases' = IF stop THEN Append(entered, "CONVERGED")
                        ELSE IF last THEN Append(entered, "ITERATION_LIMIT_REACHED")
                        ELSE entered
    /\ UNCHANGED << random_indices, image, num_colors, max_iterations, ignore_background,
                    bg_threshold, quantize_pixels, fallback, quantized, palette,
                    brightness_order, prev, runs, pixel_assignments >>
    /\ UNCHANGED << dvars, bvars, avars, ovars >>

\* range(max_iterations) is empty: the loop body never runs.
SkipLoop ==
    /\ pc = "initialized"
    /\ ~RangeHasNext(iteration, max_iterations)
    /\ pc' = "limit"
    /\ phases' = phases \o << "ITERATING", "ITERATION_LIMIT_REACHED" >>
    /\ UNCHANGED << random_indices, image, num_colors, max_iterations, ignore_background,
                    bg_threshold, quantize_pixels, fallback, cluster_centers,
                    old_centers, assignments, reseeded, iteration, rng, quantized,
                    palette, brightness_order, prev, runs, pixel_assignments >>
    /\ UNCHANGED << dvars, bvars, avars, ovars >>

\* Lines 173-208: remap all pixels, print the sorted palette, return.
ApplyPalette ==
    /\ pc \in {"converged", "limit"}
    /\ ~ArgMinRaises(cluster_centers)
    /\ pixel_assignments' =
           Assign(ApplyTo(image, quantize_pixels), cluster_centers)
    /\ quantized' =
           QuantizedImage(ApplyTo(image, quantize_pixels), cluster_centers)
    /\ brightness_order' = ArgSortBrightness(cluster_centers)
    /\ palette' = ReturnedPalette(cluster_centers)
    /\ cluster_centers' = CentersAfterApply(cluster_centers)
    /\ phases' = Append(phases, "FINALIZED")
    /\ pc' = "done"
    /\ UNCHANGED << random_indices, image, num_colors, max_iterations, ignore_background,
                    bg_threshold, quantize_pixels, fallback,
                    old_centers, assignments, reseeded, iteration, rng, prev, runs >>
    /\ UNCHANGED << dvars, bvars, avars, ovars >>

\* Lines 144 and 184 with no centroid at all (num_colors = 0): the call ends
\* with the ValueError of np.argmin.
RaiseInArgMin ==
    /\ \/ pc \in {"initialized", "iterating"} /\ RangeHasNext(iteration, max_iterations)
       \/ pc \in {"converged", "limit"}
    /\ ArgMinRaises(cluster_centers)
    /\ pc' = "error"
    /\ UNCHANGED << random_indices, image, num_colors, max_iterations, ignore_background,
                    bg_threshold, quantize_pixels, fallback, cluster_centers,
                    old_centers, assignments, reseeded, iteration, rng, quantized,
                    palette, brightness_order, prev, runs, pixel_assignments,
                    phases >>
    /\ UNCHANGED << dvars, bvars, avars, ovars >>

Outcome(rel) ==
    [rel |-> rel, status |-> pc, centers |-> cluster_centers,
     palette |-> palette, quantized |-> quantized, indices |-> random_indices]

\* The caller calls kmeans_color_quantization again with the same arguments.
Rerun ==
    /\ pc \in {"done", "error"}
    /\ runs < 2
    /\ prev' = Outcome("same")
    /\ runs' = runs + 1
    /\ pc' = "start"
    /\ RunReset
    /\ UNCHANGED << image, num_colors, max_iterations, ignore_background,
                    bg_threshold, rng >>
    /\ UNCHANGED << dvars, bvars, avars, ovars >>

\* The caller calls again with an image that differs from the last one only
\* in pixels that are background in both.
RerunOtherBackground ==
    /\ pc = "done"
    /\ runs < 2
    /\ ignore_background
    /\ \E other \in [1..Len(image) -> Colors] :
          /\ other # image
          /\ \A i \in 1..Len(image) :
                IF ForegroundMask(image, bg_threshold)[i]
                THEN other[i] = image[i]
                ELSE ~ForegroundMask(other, bg_threshold)[i]
          /\ image' = other
    /\ prev' = Outcome("background")
    /\ runs' = runs + 1
    /\ pc' = "start"
    /\ RunReset
    /\ UNCHANGED << num_colors, max_iterations, ignore_background, bg_threshold, rng >>
    /\ UNCHANGED << dvars, bvars, avars, ovars >>

\* One call of kmeans_color_quantization.
Next ==
    \/ SelectTraining
    \/ InitCenters
    \/ Iterate
    \/ SkipLoop
    \/ ApplyPalette

Spec == Init /\ [][Next]_vars

\* One call with arguments that include values outside the documented ranges:
\* num_colors = 0 ("2-256"), bg_threshold = -1 and 256 ("0-255").
ConfigThresholds == { 0 - 1, 30, 256 }
InitConfig == InitArgs(PairImages, 0..MaxK, ConfigThresholds)

NextConfig ==
    \/ SelectTraining
    \/ InitCenters
    \/ Iterate
    \/ SkipLoop
    \/ ApplyPalette
    \/ RaiseInArgMin

SpecConfig == InitConfig /\ [][NextConfig]_vars

\* One call on images whose colours lie within one unit per channel of each
\* other, so that centroids move by fractions of a unit.
NearColors == { <<93, 0, 0>>, <<94, 1, 1>>, <<0, 90, 0>> }
NearImages == UNION { [1..n -> NearColors] : n \in 1..MaxPixels }
InitNear == InitWith(NearImages)
SpecNear == InitNear /\ [][Next]_vars

\* Two calls in sequence, with other users of np.random in between.
InitRerun == InitWith(PairImages)

NextRerun ==
    \/ ExternalDraw
    \/ SelectTraining
    \/ InitCenters
    \/ Iterate
    \/ SkipLoop
    \/ ApplyPalette
    \/ Rerun
    \/ RerunOtherBackground

SpecRerun == InitRerun /\ [][NextRerun]_vars

\* A call on its own, then the same call again while another thread runs
\* kmeans_color_quantization too: between two steps of the observed call the
\* other thread executes np.random.seed(42) or draws from np.random, which
\* leaves the one process-wide generator at another position.
OtherRunStep ==
    /\ runs = 2
    /\ prev.rel = "same"
    /\ pc \in {"initialized", "iterating"}
    /\ \E r \in 0..MaxSkip : r # rng /\ rng' = r
    /\ prev' = [prev EXCEPT !.rel = "interleaved"]
    /\ UNCHANGED << random_indices, image, num_colors, max_iterations, ignore_background,
                    bg_threshold, pc, quantize_pixels, fallback, cluster_centers,
                    old_centers, assignments, reseeded, iteration, quantized,
                    palette, brightness_order, runs, pixel_assignments, phases >>
    /\ UNCHANGED << dvars, bvars, avars, ovars >>

NextInterleaved ==
    \/ SelectTraining
    \/ InitCenters
    \/ Iterate
    \/ SkipLoop
    \/ ApplyPalette
    \/ Rerun
    \/ OtherRunStep

SpecInterleaved == InitRerun /\ [][NextInterleaved]_vars

\* ------------------------------------------------------------- downsample spec
KmeansIdle ==
    /\ image = << >>
    /\ num_colors = 1
    /\ max_iterations = 0
    /\ ignore_background = FALSE
    /\ bg_threshold = 30
    /\ pc = "idle"
    /\ quantize_pixels = << >>
    /\ fallback = FALSE
    /\ cluster_centers = << >>
    /\ old_centers = << >>
    /\ assignments = << >>
    /\ reseeded = {}
    /\ iteration = 0
    /\ rng = 0
    /\ quantized = << >>
    /\ palette = << >>
    /\ brightness_order = << >>
    /\ prev = NoPrev
    /\ runs = 1
    /\ pixel_assignments = << >>
    /\ phases = << >>
    /\ random_indices = << >>

\* Sizes tried: every small size, and the 200x100 source with the 100x100
\* target.
SrcSizes == ((1..MaxSrc) \X (1..MaxSrc)) \cup { << 200, 100 >> }
TargetSizes == ((1..MaxTarget) \X (1..MaxTarget)) \cup { << 100, 100 >> }

InitDownsample ==
    /\ src_size \in SrcSizes
    /\ target_size \in TargetSizes
    /\ preserve_aspect \in BOOLEAN
    /\ ds = [status |-> "pending", size |-> << 0, 0 >>, content |-> << 0, 0 >>,
             offset |-> << 0, 0 >>, canvas |-> << >>]
    /\ KmeansIdle
    /\ BatchIdle
    /\ AsciiIdle
    /\ OthersIdle

\* Lines 7-37: one call of downsample_image.
Downsample ==
    /\ ds.status = "pending"
    /\ ds' = DownsampleImage(src_size, target_size, preserve_aspect)
    /\ UNCHANGED << src_size, target_size, preserve_aspect >>
    /\ UNCHANGED << kvars, bvars, avars, ovars >>

NextDownsample == Downsample

SpecDownsample == InitDownsample /\ [][NextDownsample]_vars

\* ------------------------------------------------------------- batch spec
\* PixelArtGUI.do_processing (src/gui_pixelart.py).  A frame is described by
\* what create_pixel_art does on it: "ok" (returns and saves) or "raises"
\* (undecodable file, or one of the ValueErrors of the pipeline).
FrameOutcomes == { "ok", "raises" }
Batches == UNION { [1..n -> FrameOutcomes] : n \in 1..MaxFrames }

InitBatch ==
    /\ batch \in { [frames |-> f, next |-> 1, output_files |-> << >>,
                     status |-> "running"] : f \in Batches }
    /\ KmeansIdle
    /\ DownsampleIdle
    /\ AsciiIdle
    /\ OthersIdle

\* One pass of the for loop: create_pixel_art returns, the output file is
\* appended.
ProcessFrame ==
    /\ batch.status = "running"
    /\ batch.next <= Len(batch.frames)
    /\ batch.frames[batch.next] = "ok"
    /\ batch' = [batch EXCEPT !.output_files = Append(@, batch.next),
                              !.next = @ + 1]
    /\ UNCHANGED << kvars, dvars, avars, ovars >>

\* create_pixel_art raises inside the loop: control leaves the try block for
\* the except clause, which schedules processing_error.
FrameRaises ==
    /\ batch.status = "running"
    /\ batch.next <= Len(batch.frames)
    /\ batch.frames[batch.next] = "raises"
    /\ batch' = [batch EXCEPT !.status = "error"]
    /\ UNCHANGED << kvars, dvars, avars, ovars >>

\* The loop is over: the GIF is assembled and processing_complete scheduled.
CreateGif ==
    /\ batch.status = "running"
    /\ batch.next > Len(batch.frames)
    /\ batch' = [batch EXCEPT !.status = "complete"]
    /\ UNCHANGED << kvars, dvars, avars, ovars >>

NextBatch ==
    \/ ProcessFrame
    \/ FrameRaises
    \/ CreateGif

SpecBatch == InitBatch /\ [][NextBatch]_vars

\* ------------------------------------------------------------- ascii spec
\* image_to_ascii (src/asciiart_converter.py) with character_ratio = 1.0: the
\* size <<width, height>> of the character grid for an image of size orig and
\* the limits max = <<max_width, max_height>>.  The float floor division of
\* line 199 and the truncated float quotient of line 203 agree with the
\* integer quotients for these sizes.
AsciiGridUncapped(orig, max) == << max[1], (orig[2] * max[1]) \div orig[1] >>
AsciiGridSize(orig, max) ==
    LET proposed_height == (orig[2] * max[1]) \div orig[1]
    IN  IF proposed_height <= max[2]
        THEN << max[1], proposed_height >>
        ELSE << (orig[1] * max[2]) \div orig[2], max[2] >>

InitAscii ==
    /\ ascii \in { [status |-> "pending", original |-> o, max |-> m, size |-> << 0, 0 >>] :
                     o \in (1..MaxSrc) \X (1..MaxSrc),
                     m \in (1..MaxTarget) \X (1..MaxTarget) }
    /\ KmeansIdle
    /\ DownsampleIdle
    /\ BatchIdle
    /\ OthersIdle

\* Lines 192-204: the image is opened and the grid size computed.
ComputeGrid ==
    /\ ascii.status = "pending"
    /\ ascii' = [ascii EXCEPT !.status = "done",
                              !.size = AsciiGridSize(ascii.original, ascii.max)]
    /\ UNCHANGED << kvars, dvars, bvars, ovars >>

NextAscii == ComputeGrid

SpecAscii == InitAscii /\ [][NextAscii]_vars

\* ------------------------------------------------------------- properties
ChannelSum(p) == p[1] + p[2] + p[3]

\* The j-th smallest element of a set of indices.
NthOf(S, j) == CHOOSE i \in S : Cardinality({ x \in S : x <= i }) = j

\* s is the sequence of the elements of pixels at the positions in S, in order.
IsSelection(s, pixels, S) ==
    /\ Len(s) = Cardinality(S)
    /\ \A j \in 1..Len(s) : s[j] = pixels[NthOf(S, j)]

\* Positions of the pixels whose mean channel value exceeds / reaches the threshold.
Above(pixels, thr) == { i \in 1..Len(pixels) : ChannelSum(pixels[i]) > 3 * thr }
AtOrAbove(pixels, thr) == { i \in 1..Len(pixels) : ChannelSum(pixels[i]) >= 3 * thr }

Selected == pc \notin {"start", "idle"}
LoopLeft == pc \in {"converged", "limit", "done"}

\* v is s/n truncated to an integer of 0..255 (s/n within that range).
IsTruncation(v, s, n) == v \in 0..255 /\ v * n <= s /\ s < (v + 1) * n

\* C1: for any image of at least one pixel and any K >= 1 the run finishes
\* with exactly K centroids, and every iteration assigns each training sample
\* to exactly one centroid index, so the membership counts sum to the size of
\* the training set.
C1_AlwaysKCentroids ==
    /\ pc # "error"
    /\ LoopLeft => Len(cluster_centers) = num_colors
    /\ iteration >= 1 =>
          /\ DOMAIN assignments = 1..Len(quantize_pixels)
          /\ \A i \in DOMAIN assignments : assignments[i] \in 1..num_colors
          /\ SumSeq([k \in 1..num_colors |-> Cardinality(Members(assignments, k))])
                = Len(quantize_pixels)

\* C2: with filtering on and fewer than K foreground pixels the training set
\* is all pixels, the notice is given and the run completes without a hard
\* failure; with at least K foreground pixels the training set is exactly the
\* foreground pixels; with filtering off it is all pixels.
C2_FallbackNeverFails ==
    Selected =>
        /\ fallback = (ignore_background
                          /\ Cardinality(Above(image, bg_threshold)) < num_colors)
        /\ quantize_pixels =
              IF ignore_background /\ ~fallback
              THEN ForegroundPixels(image, bg_threshold)
              ELSE image
        /\ fallback => pc # "error"

C4_BackgroundStrictlyBelow ==
    (Selected /\ ignore_background /\ ~fallback) =>
        IsSelection(quantize_pixels, image, AtOrAbove(image, bg_threshold))

\* C5: in the quantized image every pixel of the full input image, background
\* included, is replaced by the colour of a centroid no other final centroid
\* is nearer to, each channel an integer of 0..255 (the centroid's channel
\* truncated).
C5_EveryPixelNearestCentroid ==
    pc = "done" =>
        /\ Len(quantized) = Len(image)
        /\ \A i \in 1..Len(image) :
              \E k \in 1..num_colors :
                  /\ \A j \in 1..num_colors :
                        ~Nearer(image[i], cluster_centers[j], cluster_centers[k])
                  /\ \A ch \in 1..3 :
                        IsTruncation(quantized[i][ch], cluster_centers[k].s[ch],
                                     cluster_centers[k].n)

C5_Witness ==
    /\ pc = "done" /\ ignore_background /\ ~fallback /\ num_colors >= 2
    /\ \E i \in 1..Len(image) :
          /\ i \notin Above(image, bg_threshold)
          /\ quantized[i] # image[i]
    /\ \E i \in 1..Len(image) : \E j \in 1..Len(image) : quantized[i] # quantized[j]

BrightnessSorted(p) ==
    \A i \in 1..Len(p) : \A j \in 1..Len(p) :
        i < j => ChannelSum(p[i]) <= ChannelSum(p[j])

\* C6 (as claimed): the palette returned to the caller is the K centroids
\* sorted in ascending order of mean-channel brightness.
C6_ReturnedPaletteSorted ==
    pc = "done" => (Len(palette) = num_colors /\ BrightnessSorted(palette))

\* C6 (amended): the returned palette is the K centroids in cluster-index
\* order, each channel truncated to 8 bits; the palette that is printed lists
\* every centroid once, in ascending order of mean-channel brightness.
C6_PrintedSortedReturnedByIndex ==
    pc = "done" =>
        /\ Len(palette) = num_colors
        /\ \A k \in 1..num_colors : \A ch \in 1..3 :
              IsTruncation(palette[k][ch], cluster_centers[k].s[ch],
                           cluster_centers[k].n)
        /\ Len(brightness_order) = num_colors
        /\ { brightness_order[i] : i \in 1..num_colors } = 1..num_colors
        /\ \A i \in 1..num_colors : \A j \in 1..num_colors :
              i < j => ~Darker(cluster_centers[brightness_order[j]],
                               cluster_centers[brightness_order[i]])

C6_Witness ==
    /\ pc = "done"
    /\ ~BrightnessSorted(palette)
    /\ brightness_order # [i \in 1..num_colors |-> i]

\* C7: a second run with the same image, K, threshold, filtering flag and
\* max_iterations ends as the first did and returns the same palette and the
\* same quantized image, whatever was drawn from np.random in between.
C7_SequentialRunsAgree ==
    (prev.rel = "same" /\ pc \in {"done", "error"}) =>
        /\ prev.status = pc
        /\ prev.palette = palette
        /\ prev.quantized = quantized
        /\ prev.centers = cluster_centers

C7_Witness ==
    /\ prev.rel = "same" /\ pc = "done"
    /\ reseeded # {}
    /\ Len(quantize_pixels) >= 2
    /\ \E i \in 1..Len(image) : \E j \in 1..Len(image) : image[i] # image[j]

\* C8: with filtering on and at least K foreground pixels, two images with
\* the same foreground pixels at the same positions, differing only in
\* background pixels, leave the loop with identical centroids.
C8_CentroidsIgnoreBackground ==
    (prev.rel = "background" /\ LoopLeft /\ ~fallback) =>
        prev.centers = cluster_centers

C8_Witness ==
    /\ prev.rel = "background" /\ pc = "done" /\ ~fallback
    /\ num_colors >= 2
    /\ iteration >= 1
    /\ Len(quantize_pixels) < Len(image)

\* Sum over the training set of the squared distance of each sample to the
\* centroid asg gives it, times WcssDen(centers).
WcssDen(centers) == ProdSeq([k \in 1..Len(centers) |-> centers[k].n * centers[k].n])
WcssNum(pixels, centers, asg) ==
    SumSeq([i \in 1..Len(pixels) |->
              Dist2Num(pixels[i], centers[asg[i]])
                * (WcssDen(centers) \div (centers[asg[i]].n * centers[asg[i]].n))])

\* wcss(c1, a1) <= wcss(c2, a2)
WcssLeq(pixels, c1, a1, c2, a2) ==
    WcssNum(pixels, c1, a1) * WcssDen(c2) <= WcssNum(pixels, c2, a2) * WcssDen(c1)

\* C9: across an iteration that reseeds no empty cluster the within-cluster
\* sum of squared distances does not grow: with the iteration's assignment
\* the updated centroids give no more than the centroids before it, and
\* re-assigning every sample to its nearest updated centroid gives no more
\* again.
C9_WcssNotIncreasing ==
    (iteration >= 1 /\ reseeded = {} /\ pc # "error") =>
        /\ WcssLeq(quantize_pixels, cluster_centers, assignments,
                   old_centers, assignments)
        /\ WcssLeq(quantize_pixels, cluster_centers,
                   Assign(quantize_pixels, cluster_centers),
                   cluster_centers, assignments)

C9_Witness ==
    /\ iteration >= 2 /\ reseeded = {}
    /\ WcssNum(quantize_pixels, cluster_centers, assignments) > 0
    /\ ~WcssLeq(quantize_pixels, old_centers, assignments,
                cluster_centers, assignments)

\* C10: downsample_image returns an image of exactly target_width x
\* target_height for every source of positive size and every positive target
\* size, with and without preserve_aspect.
C10_ExactTargetSize ==
    ds.status \notin {"pending", "idle"} =>
        (ds.status = "ok" /\ ds.size = target_size)

\* ------------------------------------------------------------- C11
\* floor(side * min(tw/sw, th/sh)) in exact arithmetic: v is the floor of
\* side * num / den.
IsFloorOf(v, side, num, den) == v * den <= side * num /\ side * num < (v + 1) * den

\* C11: in preserve-aspect mode a call that returns has scaled the source by
\* min(target_w/source_w, target_h/source_h) (each side truncated), the
\* content is no larger than the target on either axis, it sits at offsets
\* floor((target - scaled) / 2), and every canvas pixel outside it is black;
\* a 200x100 source with a 100x100 target gives 100x50 content under 25 rows
\* of black at the top and at the bottom.
C11_LetterboxGeometry ==
    (ds.status = "ok" /\ preserve_aspect) =>
        LET sw == src_size[1]
            sh == src_size[2]
            tw == target_size[1]
            th == target_size[2]
            cw == ds.content[1]
            ch == ds.content[2]
            byWidth == tw * sh <= th * sw
        IN  /\ IF byWidth
               THEN IsFloorOf(cw, sw, tw, sw) /\ IsFloorOf(ch, sh, tw, sw)
               ELSE IsFloorOf(cw, sw, th, sh) /\ IsFloorOf(ch, sh, th, sh)
            /\ cw <= tw /\ ch <= th
            /\ 2 * ds.offset[1] <= tw - cw /\ tw - cw <= 2 * ds.offset[1] + 1
            /\ 2 * ds.offset[2] <= th - ch /\ th - ch <= 2 * ds.offset[2] + 1
            /\ DOMAIN ds.canvas = (0..(tw - 1)) \X (0..(th - 1))
            /\ \A p \in DOMAIN ds.canvas :
                  (ds.canvas[p] = "content") <=>
                      /\ ds.offset[1] <= p[1] /\ p[1] < ds.offset[1] + cw
                      /\ ds.offset[2] <= p[2] /\ p[2] < ds.offset[2] + ch
            /\ \A p \in DOMAIN ds.canvas : ds.canvas[p] \in {"content", "black"}
            /\ (src_size = << 200, 100 >> /\ target_size = << 100, 100 >>) =>
                  /\ ds.content = << 100, 50 >>
                  /\ ds.offset = << 0, 25 >>
                  /\ \A x \in 0..99 : \A y \in (0..24) \cup (75..99) :
                        ds.canvas[<< x, y >>] = "black"
                  /\ \A x \in 0..99 : \A y \in 25..74 :
                        ds.canvas[<< x, y >>] = "content"

\* the 200x100 source has been letterboxed into 100x100
C11_Witness ==
    /\ ds.status = "ok"
    /\ preserve_aspect
    /\ src_size = << 200, 100 >>
    /\ target_size = << 100, 100 >>
    /\ ds.canvas[<< 0, 0 >>] = "black"
    /\ ds.canvas[<< 50, 50 >>] = "content"

\* ------------------------------------------------------------- C12
\* The state right after a pass of the loop body.
AfterIteration == pc \in {"iterating", "converged", "limit"} /\ iteration >= 1

\* floor(sqrt(x)) and ceil(sqrt(x)) of a natural number, by bisection.
RECURSIVE SqrtBisect(_, _, _)
SqrtBisect(x, lo, hi) ==
    IF hi - lo <= 1 THEN lo
    ELSE LET mid == (lo + hi) \div 2
         IN  IF mid * mid <= x THEN SqrtBisect(x, mid, hi) ELSE SqrtBisect(x, lo, mid)
FloorSqrt(x) == SqrtBisect(x, 0, 32768)
CeilSqrt(x) == IF FloorSqrt(x) * FloorSqrt(x) = x THEN FloorSqrt(x) ELSE FloorSqrt(x) + 1

\* Squared Euclidean length of new - old, times (new.n * old.n)^2.
Euclid2Num(new, old) ==
    (new.s[1] * old.n - old.s[1] * new.n) * (new.s[1] * old.n - old.s[1] * new.n)
  + (new.s[2] * old.n - old.s[2] * new.n) * (new.s[2] * old.n - old.s[2] * new.n)
  + (new.s[3] * old.n - old.s[3] * new.n) * (new.s[3] * old.n - old.s[3] * new.n)

\* The Euclidean length of new - old in thousandths, rounded down and rounded
\* up; a length of 1 or more is reported as 1000 (the sum is then not below 1).
MilliLengthDown(new, old) ==
    LET d2 == (new.n * old.n) * (new.n * old.n)
    IN  IF Euclid2Num(new, old) >= d2 THEN 1000
        ELSE FloorSqrt((Euclid2Num(new, old) * 1000000) \div d2)
MilliLengthUp(new, old) ==
    LET d2 == (new.n * old.n) * (new.n * old.n)
        a == Euclid2Num(new, old) * 1000000
    IN  IF Euclid2Num(new, old) >= d2 THEN 1000
        ELSE CeilSqrt((a + d2 - 1) \div d2)

\* The sum over the centroids of the Euclidean length of (new - old) is
\* certainly below 1.0, certainly not below 1.0.
EuclidBelowOne ==
    SumSeq([k \in 1..Len(cluster_centers) |->
               MilliLengthUp(cluster_centers[k], old_centers[k])]) < 1000
EuclidNotBelowOne ==
    SumSeq([k \in 1..Len(cluster_centers) |->
               MilliLengthDown(cluster_centers[k], old_centers[k])]) >= 1000

\* The sum over the centroids and the three channels of |new - old| is below
\* 1.0 (all terms over the common denominator D).
AbsShiftBelowOne ==
    LET K == Len(cluster_centers)
        d(k) == cluster_centers[k].n * old_centers[k].n
        D == ProdSeq([k \in 1..K |-> d(k)])
        term(k, ch) == Abs(cluster_centers[k].s[ch] * old_centers[k].n
                           - old_centers[k].s[ch] * cluster_centers[k].n) * (D \div d(k))
    IN  SumSeq([k \in 1..K |-> term(k, 1) + term(k, 2) + term(k, 3)]) < D

\* C12 (as stated): the loop stops after a pass exactly when the sum over the
\* K centroids of the Euclidean magnitude of (new - old) is below 1.0: it
\* does not go on to another pass after such a displacement, and it does not
\* break out after a larger one.
C12_StopsOnEuclideanShift ==
    AfterIteration =>
        /\ EuclidBelowOne => pc # "iterating"
        /\ pc = "converged" => ~EuclidNotBelowOne

\* C12 (amended): the loop stops by convergence after a pass exactly when the
\* sum over the K centroids and the three channels of |new - old| is below
\* 1.0; otherwise it goes on with the next pass, unless max_iterations passes
\* are done.
C12_StopsOnAbsoluteShift ==
    AfterIteration =>
        /\ pc = "converged" <=> AbsShiftBelowOne
        /\ pc = "iterating" <=> (~AbsShiftBelowOne /\ iteration < max_iterations)
        /\ pc = "limit" <=> (~AbsShiftBelowOne /\ iteration = max_iterations)

\* a pass moved the centroids by less than 1.0 in Euclidean length and the
\* loop goes on
C12_Witness ==
    /\ pc = "iterating"
    /\ iteration = 1
    /\ EuclidBelowOne
    /\ ~AbsShiftBelowOne

\* ------------------------------------------------------------- C13
\* A step taken inside the loop either completes one more pass or leaves an
\* empty range(max_iterations); the step taken after the loop, whichever way
\* it was left, applies the palette and returns.
LoopStepCounts ==
    /\ pc \in {"initialized", "iterating"} =>
          /\ pc' \in {"iterating", "converged", "limit"}
          /\ \/ iteration' = iteration + 1
             \/ max_iterations = 0 /\ iteration' = iteration /\ pc' = "limit"
    /\ pc \in {"converged", "limit"} =>
          /\ pc' = "done"
          /\ iteration' = iteration
          /\ Len(quantized') = Len(image)

\* Where a run stands with respect to the cap: never more than max_iterations
\* passes, a further pass pending only while passes are left (so the run is
\* never stuck inside the loop), the cap reported only at the cap, the result
\* complete once it is returned, and no error after initialisation.
LoopWithinCap ==
    /\ iteration \in 0..max_iterations
    /\ pc = "iterating" => iteration < max_iterations
    /\ pc = "limit" => iteration = max_iterations
    /\ pc = "done" => Len(quantized) = Len(image) /\ Len(palette) = num_colors
    /\ pc = "error" => phases = << >>

\* C13: the loop always terminates: every step inside it completes one more
\* pass, at most max_iterations passes are made, and after max_iterations
\* passes without convergence the run still goes on to apply the palette and
\* returns a result; no error arises once the centroids are initialised.
C13_LoopTerminates == [][LoopWithinCap /\ LoopStepCounts /\ LoopWithinCap']_vars

\* max_iterations passes were made without convergence and the result was
\* returned
C13_Witness ==
    /\ pc = "done"
    /\ iteration = max_iterations
    /\ max_iterations = MaxIter
    /\ ~AbsShiftBelowOne
    /\ Len(quantized) = Len(image)

\* ------------------------------------------------------------- C14
IsPrefix(a, b) == Len(a) <= Len(b) /\ \A i \in 1..Len(a) : a[i] = b[i]

\* The two orders in which a run may pass through the engine states.
ViaConverged == << "INITIALIZED", "ITERATING", "CONVERGED", "FINALIZED" >>
ViaLimit == << "INITIALIZED", "ITERATING", "ITERATION_LIMIT_REACHED", "FINALIZED" >>

\* The states entered so far are an initial part of one of the two orders, and
\* they are the ones the position of the run accounts for.
PhasesInOrder ==
    /\ IsPrefix(phases, ViaConverged) \/ IsPrefix(phases, ViaLimit)
    /\ pc \in {"start", "selected", "error"} <=> phases = << >>
    /\ pc = "initialized" <=> phases = << "INITIALIZED" >>
    /\ pc = "iterating" <=> phases = << "INITIALIZED", "ITERATING" >>
    /\ pc = "converged" <=> phases = SubSeq(ViaConverged, 1, 3)
    /\ pc = "limit" <=> phases = SubSeq(ViaLimit, 1, 3)
    /\ pc = "done" <=> phases \in { ViaConverged, ViaLimit }

\* C14: a run passes through INITIALIZED, ITERATING, exactly one of CONVERGED
\* and ITERATION_LIMIT_REACHED, and FINALIZED, in this order: FINALIZED is
\* entered only from one of those two, a state once left is never entered
\* again, and the centroids do not change once the loop is left.
C14_StatesInOrder ==
    [][/\ PhasesInOrder
       /\ PhasesInOrder'
       /\ IsPrefix(phases, phases')
       /\ LoopLeft => cluster_centers' = cluster_centers]_vars

\* a run that converged in its second pass has been finalized, with a palette
\* whose brightness order is not its index order
C14_Witness ==
    /\ pc = "done"
    /\ phases = ViaConverged
    /\ iteration = 2
    /\ brightness_order # [k \in 1..num_colors |-> k]

\* ------------------------------------------------------------- C15
\* num_colors or bg_threshold lies outside its valid range.
InvalidConfig == num_colors < 1 \/ bg_threshold \notin 0..255

\* C15: a call with an invalid configuration (K < 1, threshold outside
\* [0, 255]) is rejected with a configuration error before any processing.
C15_InvalidConfigRejected ==
    InvalidConfig => pc \in {"start", "config_error"}

\* ------------------------------------------------------------- C16
\* C16: in a batch run the failure of one frame does not halt the processing
\* of the remaining frames: when the batch is over, every frame that can be
\* processed has been.
C16_FailureIsolated ==
    batch.status \in {"complete", "error"} =>
        \A i \in 1..Len(batch.frames) :
            batch.frames[i] = "ok" =>
                \E j \in 1..Len(batch.output_files) : batch.output_files[j] = i

\* ------------------------------------------------------------- C17
\* C17: no state is shared between runs: a run interleaved with another run
\* returns the same image and palette as the same run on its own.
C17_InterleavedRunsUnaffected ==
    (pc = "done" /\ prev.rel = "interleaved" /\ prev.status = "done") =>
        /\ quantized = prev.quantized
        /\ palette = prev.palette

\* ------------------------------------------------------------- C18
\* The training set has at least K pixels but fewer than K distinct colours.
FewerColoursThanK ==
    /\ Len(quantize_pixels) >= num_colors
    /\ Cardinality({ quantize_pixels[i] : i \in 1..Len(quantize_pixels) }) < num_colors

\* c is a colour vector: a mean of at least one pixel, every channel in [0, 255].
ValidCentroid(c) ==
    /\ c.n >= 1
    /\ \A ch \in 1..3 : 0 <= c.s[ch] /\ c.s[ch] <= 255 * c.n

\* C18: when K exceeds the number of distinct colours of a training set of at
\* least K pixels, the engine does not fail, it holds K valid centroids from
\* initialisation on, and every output pixel is assigned one of them.
C18_MoreClustersThanColours ==
    FewerColoursThanK =>
        /\ pc # "error"
        /\ pc \in {"initialized", "iterating", "converged", "limit", "done"} =>
              /\ Len(cluster_centers) = num_colors
              /\ \A k \in 1..num_colors : ValidCentroid(cluster_centers[k])
        /\ pc = "done" =>
              /\ Len(quantized) = Len(image)
              /\ \A i \in 1..Len(image) :
                    /\ pixel_assignments[i] \in 1..num_colors
                    /\ quantized[i] = QuantizedColor(cluster_centers[pixel_assignments[i]])

\* a flat image was quantized to K = MaxK centroids, with a cluster found
\* empty and reseeded in the last pass
C18_Witness ==
    /\ pc = "done"
    /\ num_colors = MaxK
    /\ FewerColoursThanK
    /\ \A i \in 1..Len(image) : image[i] = image[1]
    /\ reseeded # {}

\* ------------------------------------------------------------- C19
\* C19: with character_ratio 1 the grid computed by image_to_ascii is at most
\* max_width characters wide and at most max_height characters high.
C19_GridWithinLimits ==
    ascii.status = "done" =>
        /\ 0 <= ascii.size[1] /\ ascii.size[1] <= ascii.max[1]
        /\ 0 <= ascii.size[2] /\ ascii.size[2] <= ascii.max[2]

\* a tall image was fitted to max_height, with a width below max_width
C19_Witness ==
    /\ ascii.status = "done"
    /\ ascii.original[2] > ascii.original[1]
    /\ ascii.size[2] = ascii.max[2]
    /\ 0 < ascii.size[1] /\ ascii.size[1] < ascii.max[1]

\* ------------------------------------------------------------- C20
\* Centroid k is at minimal distance from p, and every centroid of a lower
\* index is strictly farther.
LowestNearest(p, centers, k) ==
    /\ k \in 1..Len(centers)
    /\ \A j \in 1..Len(centers) : ~Nearer(p, centers[j], centers[k])
    /\ \A j \in 1..(k - 1) : Nearer(p, centers[k], centers[j])

\* p is equally far from centroid k and from some centroid of a higher index.
TiedAbove(p, centers, k) ==
    \E j \in (k + 1)..Len(centers) :
        ~Nearer(p, centers[j], centers[k]) /\ ~Nearer(p, centers[k], centers[j])

\* C20: a pixel equidistant from several nearest centroids goes to the one of
\* lowest index, in the assignment step of every pass and in the final
\* application of the palette.
C20_TiesToLowestIndex ==
    /\ (iteration >= 1 /\ pc \in {"iterating", "converged", "limit", "done"}) =>
          \A i \in 1..Len(quantize_pixels) :
              LowestNearest(quantize_pixels[i], old_centers, assignments[i])
    /\ pc = "done" =>
          \A i \in 1..Len(image) :
              /\ LowestNearest(image[i], cluster_centers, pixel_assignments[i])
              /\ quantized[i] = QuantizedColor(cluster_centers[pixel_assignments[i]])

\* a finished run in which a training pixel was tied in the last assignment
\* step and an image pixel is tied in the final application
C20_Witness ==
    /\ pc = "done"
    /\ iteration >= 1
    /\ \E i \in 1..Len(quantize_pixels) :
          TiedAbove(quantize_pixels[i], old_centers, assignments[i])
    /\ \E i \in 1..Len(image) :
          TiedAbove(image[i], cluster_centers, pixel_assignments[i])

\* ------------------------------------------------------------- C21
\* Centroid c is the arithmetic mean of the pixels at the positions idx.
IsMeanOf(c, pixels, idx) ==
    /\ c.n >= 1
    /\ \A ch \in 1..3 : c.s[ch] * Cardinality(idx) = c.n * SumChannel(pixels, idx, ch)

\* Centroid c is one of the pixels.
IsSampleOf(c, pixels) ==
    /\ c.n >= 1
    /\ \E i \in 1..Len(pixels) : \A ch \in 1..3 : c.s[ch] = pixels[i][ch] * c.n

\* C21: after every update step a centroid that received assignments is the
\* arithmetic mean of the training pixels assigned to it, a centroid that
\* received none is one pixel of the training set, and each of the K
\* centroids is a defined colour vector.
C21_UpdateMeanOrReseed ==
    (iteration >= 1 /\ pc \in {"iterating", "converged", "limit", "done"}) =>
        /\ Len(cluster_centers) = num_colors
        /\ \A k \in 1..num_colors :
              /\ ValidCentroid(cluster_centers[k])
              /\ IF Members(assignments, k) # {}
                 THEN /\ k \notin reseeded
                      /\ IsMeanOf(cluster_centers[k], quantize_pixels,
                                  Members(assignments, k))
                 ELSE /\ k \in reseeded
                      /\ IsSampleOf(cluster_centers[k], quantize_pixels)

\* an update step left one centroid at a mean that is no pixel of the
\* training set and reseeded another one
C21_Witness ==
    /\ iteration >= 1
    /\ pc \in {"iterating", "converged", "limit"}
    /\ reseeded # {}
    /\ \E k \in 1..num_colors :
          /\ Members(assignments, k) # {}
          /\ ~IsSampleOf(cluster_centers[k], quantize_pixels)

\* ------------------------------------------------------------- C22
\* random_indices holds K pairwise distinct positions of the training set.
DistinctPositions ==
    /\ Len(random_indices) = num_colors
    /\ \A k \in 1..num_colors : random_indices[k] \in 0..(Len(quantize_pixels) - 1)
    /\ \A j, k \in 1..num_colors : j # k => random_indices[j] # random_indices[k]

\* C22: the initial centroids are the colours at K distinct positions of the
\* training set, and a call with the same training set draws the same
\* positions in the same order, whatever was drawn from np.random before it.
C22_InitialCentroids ==
    /\ pc \in {"initialized", "iterating", "converged", "limit", "done"} =>
          DistinctPositions
    /\ pc = "initialized" =>
          cluster_centers = [k \in 1..num_colors |->
                                AsCenter(quantize_pixels[random_indices[k] + 1])]
    /\ (prev.rel = "same" /\ pc \notin {"start", "selected"}) =>
          random_indices = prev.indices

\* the second of two equal calls, started at another position of the random
\* stream, has drawn two positions that hold the same colour
C22_Witness ==
    /\ pc = "initialized"
    /\ prev.rel = "same"
    /\ prev.status = "done"
    /\ num_colors >= 2
    /\ cluster_centers[1] = cluster_centers[2]
    /\ random_indices[1] # random_indices[2]


\* ------------------------------------------------------------- C23
\* uint8 value v is the truncation of centroid channel s / n.
IsTruncationOf(v, s, n) == v \in 0..255 /\ v * n <= s /\ s < (v + 1) * n

\* C23: at initialisation, after every iteration and in the returned palette
\* every channel of every centroid lies in 0..255; the returned palette row is
\* the truncated centroid, with no wrap-around.
C23_ChannelsInRange ==
    /\ \A k \in 1..Len(cluster_centers) : ValidCentroid(cluster_centers[k])
    /\ \A k \in 1..Len(old_centers) : ValidCentroid(old_centers[k])
    /\ pc = "done" =>
          /\ Len(palette) = num_colors
          /\ \A k \in 1..num_colors : \A ch \in 1..3 :
                IsTruncationOf(palette[k][ch], cluster_centers[k].s[ch],
                               cluster_centers[k].n)

\* a returned palette one of whose centroids is a mean with a fractional
\* channel, next to a centroid at the brightest colour of the image set
C23_Witness ==
    /\ pc = "done"
    /\ iteration >= 1
    /\ \E k \in 1..num_colors : \E ch \in 1..3 :
          cluster_centers[k].s[ch] % cluster_centers[k].n # 0
    /\ \E k \in 1..num_colors : palette[k] = << 200, 200, 200 >>


\* ------------------------------------------------------------- pipeline spec
\* create_pixel_art (lines 213-288): downsample_image, then
\* kmeans_color_quantization on its result, then save and return.
MaxPipeSide == 2

PipeSrcSizes == ((1..MaxPipeSide) \X (1..MaxPipeSide)) \cup { << 3, 1 >> }
PipeTargetSizes == (1..MaxPipeSide) \X (1..MaxPipeSide)
PipeColors == { <<0, 0, 0>>, <<0, 90, 0>>, <<200, 200, 200>> }

\* np.array(image) is (height, width, 3) and reshape(-1, 3) is row-major: the
\* 1-based position i of the flattened array is canvas pixel <<x, y>>.
CanvasPosition(i, width) == << (i - 1) % width, (i - 1) \div width >>

\* The images downsample_image may return for outcome r: the resampled
\* content is any raster, the pixels around it are the (0, 0, 0) fill.
ResampledImages(r) ==
    { img \in [1..(r.size[1] * r.size[2]) -> PipeColors] :
        \A i \in 1..(r.size[1] * r.size[2]) :
            r.canvas[CanvasPosition(i, r.size[1])] = "black" =>
                img[i] = << 0, 0, 0 >> }

InitPipeline ==
    /\ src_size \in PipeSrcSizes
    /\ target_size \in PipeTargetSizes
    /\ preserve_aspect \in BOOLEAN
    /\ ds = [status |-> "pending", size |-> << 0, 0 >>, content |-> << 0, 0 >>,
             offset |-> << 0, 0 >>, canvas |-> << >>]
    /\ image = << >>
    /\ num_colors \in 1..MaxK
    /\ max_iterations = MaxIter
    /\ ignore_background \in BOOLEAN
    /\ bg_threshold \in Thresholds
    /\ pc = "called"
    /\ quantize_pixels = << >>
    /\ fallback = FALSE
    /\ cluster_centers = << >>
    /\ old_centers = << >>
    /\ assignments = << >>
    /\ reseeded = {}
    /\ iteration = 0
    /\ rng = 0
    /\ quantized = << >>
    /\ palette = << >>
    /\ brightness_order = << >>
    /\ prev = NoPrev
    /\ runs = 1
    /\ pixel_assignments = << >>
    /\ phases = << >>
    /\ random_indices = << >>
    /\ BatchIdle
    /\ AsciiIdle
    /\ OthersIdle

\* Lines 263-269: the call of downsample_image; its ValueError leaves
\* create_pixel_art.
Resample ==
    /\ pc = "called"
    /\ LET r == DownsampleImage(src_size, target_size, preserve_aspect)
       IN  /\ ds' = r
           /\ IF r.status = "ok"
              THEN /\ image' \in ResampledImages(r)
                   /\ pc' = "start"
              ELSE /\ image' = image
                   /\ pc' = "error"
    /\ UNCHANGED << num_colors, max_iterations, ignore_background, bg_threshold,
                    quantize_pixels, fallback, cluster_centers, old_centers,
                    assignments, reseeded, iteration, rng, quantized, palette,
                    brightness_order, prev, runs, pixel_assignments, phases,
                    random_indices >>
    /\ UNCHANGED << src_size, target_size, preserve_aspect >>
    /\ UNCHANGED << bvars, avars, ovars >>

\* Lines 281-286: pixel_art.save(output_path); return pixel_art, palette.
SaveAndReturn ==
    /\ pc = "done"
    /\ output_file' = quantized
    /\ pc' = "returned"
    /\ UNCHANGED << image, num_colors, max_iterations, ignore_background,
                    bg_threshold, quantize_pixels, fallback, cluster_centers,
                    old_centers, assignments, reseeded, iteration, rng,
                    quantized, palette, brightness_order, prev, runs,
                    pixel_assignments, phases, random_indices >>
    /\ UNCHANGED << dvars, bvars, avars, evars, gvars, cvars, rvars >>

NextPipeline ==
    \/ Resample
    \/ SelectTraining
    \/ InitCenters
    \/ Iterate
    \/ ApplyPalette
    \/ SaveAndReturn

SpecPipeline == InitPipeline /\ [][NextPipeline]_vars

\* ------------------------------------------------------------- C24
\* The stage create_pixel_art is in: 0 called, 1 resampled, 2 foreground
\* selected, 3 clustering, 4 palette applied, 5 saved and returned.
StageOf(p) ==
    CASE p = "called" -> 0
      [] p = "start" -> 1
      [] p = "selected" -> 2
      [] p \in {"initialized", "iterating", "converged", "limit"} -> 3
      [] p = "done" -> 4
      [] p = "returned" -> 5
      [] OTHER -> 6

\* pixel i of the resampled image is outside the training set
IsBackgroundPixel(i) ==
    ignore_background /\ ~fallback /\ ~ForegroundMask(image, bg_threshold)[i]

\* What holds of the pipeline in every state: nothing is saved before the
\* return, and once the palette is applied the result has one pixel per pixel
\* of the resampled image, each the colour of the centroid nearest to it.
PipelineState ==
    /\ output_file # << >> => pc = "returned"
    /\ StageOf(pc) \in 1..5 =>
          /\ ds.status = "ok"
          /\ Len(image) = target_size[1] * target_size[2]
    /\ StageOf(pc) \in 2..5 =>
          quantize_pixels = QuantizePixels(image, num_colors, ignore_background,
                                           bg_threshold)
    /\ StageOf(pc) \in 4..5 =>
          /\ Len(quantized) = Len(image)
          /\ Len(pixel_assignments) = Len(image)
          /\ \A i \in 1..Len(image) :
                /\ LowestNearest(image[i], cluster_centers, pixel_assignments[i])
                /\ quantized[i] = QuantizedColor(cluster_centers[pixel_assignments[i]])
    /\ pc = "returned" => output_file = quantized

\* A step enters the next stage, stays in the clustering stage, or raises.
PipelineStep ==
    \/ StageOf(pc') = StageOf(pc) + 1
    \/ StageOf(pc') = 3 /\ StageOf(pc) = 3
    \/ pc' = "error"

PipelineInOrder == PipelineState /\ PipelineStep /\ PipelineState'

\* C24: create_pixel_art passes through resample, foreground selection,
\* clustering and palette application once each in this order and saves and
\* returns only after them; the palette is applied to every pixel of the
\* resampled image, letterbox bars and background pixels included.
C24_PipelineOrder == [][PipelineInOrder]_vars

\* a returned call whose image has letterbox bars and a background pixel
\* inside the content, both recoloured, with a training set smaller than the
\* image
C24_Witness ==
    /\ pc = "returned"
    /\ output_file = quantized
    /\ Len(quantize_pixels) < Len(image)
    /\ \E i \in 1..Len(image) :
          /\ ds.canvas[CanvasPosition(i, target_size[1])] = "black"
          /\ quantized[i] # image[i]
    /\ \E i \in 1..Len(image) :
          /\ ds.canvas[CanvasPosition(i, target_size[1])] = "content"
          /\ IsBackgroundPixel(i)
          /\ quantized[i] # image[i]


\* ------------------------------------------------------------- extractor spec
\* extract_frames_smart (src/get_frames.py) and
\* GIFFrameExtractorGUI.do_extraction (src/gui_frame_extractor.py).  A frame is
\* a uniform grey image, described by its level; frames are told apart by
\* their 0-based index, im.copy() giving a new object for each.
MaxGifFrames == 4

GreyLevels == { 0, 10, 255 }
Gifs == UNION { [1..n -> GreyLevels] : n \in 1..MaxGifFrames }
TargetFrames == 1..(MaxGifFrames + 1)

\* min_similarity in thousandths: 0, 0.95, 1.0 and a value above 1.
SimilarityThresholds == { 0, 950, 1000, 1001 }

\* calculate_similarity(f1, f2) < min_similarity, for uniform frames of grey
\* levels g1 and g2: 1 - |g1 - g2| / 255 < thr / 1000, cross-multiplied.
SimilarityAtMost(g1, g2, thr) == (255 - Abs(g1 - g2)) * 1000 <= 255 * thr
SimilarityBelow(g1, g2, thr) == (255 - Abs(g1 - g2)) * 1000 < 255 * thr

\* interval = max(1, total_frames // target_frames)
Interval(total, target) ==
    IF total \div target >= 1 THEN total \div target ELSE 1

\* for i in range(0, total_frames, interval) of extract_frames_smart: kept is
\* the sequence of indices kept so far, the frame kept last is the head of
\* comparison.
RECURSIVE SmartSampling(_, _, _, _, _)
SmartSampling(frames, i, interval, thr, kept) ==
    IF i >= Len(frames) THEN kept
    ELSE IF kept = << >>
         THEN SmartSampling(frames, i + interval, interval, thr, << i >>)
         ELSE IF SimilarityBelow(frames[kept[Len(kept)] + 1], frames[i + 1], thr)
              THEN SmartSampling(frames, i + interval, interval, thr,
                                 Append(kept, i))
              ELSE SmartSampling(frames, i + interval, interval, thr, kept)

\* if kept_frames[-1][0] != total_frames - 1: append the last frame.
ExtractFramesSmart(frames, target, thr) ==
    LET total == Len(frames)
        kept == SmartSampling(frames, 0, Interval(total, target), thr, << >>)
    IN  IF kept[Len(kept)] # total - 1
        THEN [done |-> TRUE, kept |-> Append(kept, total - 1), forced |-> TRUE]
        ELSE [done |-> TRUE, kept |-> kept, forced |-> FALSE]

\* all_frames[-1] is not kept_frames[-1]: identity of the frame objects, which
\* are distinct for distinct indices whatever they show.
DiffersInContent(frames, i, j) == frames[i + 1] # frames[j + 1]
IsNot(frames, i, j) == i # j

\* The sampling loop of do_extraction; kept_frames holds the frame objects,
\* named here by their indices.
RECURSIVE GuiSampling(_, _, _, _, _, _)
GuiSampling(frames, i, interval, thr, kept, last_kept) ==
    IF i >= Len(frames) THEN kept
    ELSE IF last_kept = -1
         THEN GuiSampling(frames, i + interval, interval, thr, Append(kept, i), i)
         ELSE IF SimilarityBelow(frames[last_kept + 1], frames[i + 1], thr)
              THEN GuiSampling(frames, i + interval, interval, thr,
                               Append(kept, i), i)
              ELSE GuiSampling(frames, i + interval, interval, thr, kept,
                               last_kept)

\* if len(kept_frames) == 0 or all_frames[-1] is not kept_frames[-1]: append.
DoExtraction(frames, target, thr) ==
    LET total == Len(frames)
        kept == GuiSampling(frames, 0, Interval(total, target), thr, << >>, -1)
    IN  IF Len(kept) = 0 \/ IsNot(frames, total - 1, kept[Len(kept)])
        THEN [done |-> TRUE, kept |-> Append(kept, total - 1), forced |-> TRUE]
        ELSE [done |-> TRUE, kept |-> kept, forced |-> FALSE]

InitExtract ==
    /\ extract \in { [frames |-> f, target_frames |-> t, min_similarity |-> m,
                      cli |-> NotExtracted, gui |-> NotExtracted] :
                        f \in Gifs, t \in TargetFrames, m \in SimilarityThresholds }
    /\ KmeansIdle
    /\ DownsampleIdle
    /\ BatchIdle
    /\ AsciiIdle
    /\ PipelineIdle
    /\ GuiIdle
    /\ ConverterIdle
    /\ ResizeIdle

\* One call of extract_frames_smart on the GIF.
RunExtractFramesSmart ==
    /\ ~extract.cli.done
    /\ extract' = [extract EXCEPT !.cli =
                      ExtractFramesSmart(extract.frames, extract.target_frames,
                                         extract.min_similarity)]
    /\ UNCHANGED << kvars, dvars, bvars, avars, pvars, gvars, cvars, rvars >>

\* One run of do_extraction on the GIF.
RunDoExtraction ==
    /\ ~extract.gui.done
    /\ extract' = [extract EXCEPT !.gui =
                      DoExtraction(extract.frames, extract.target_frames,
                                   extract.min_similarity)]
    /\ UNCHANGED << kvars, dvars, bvars, avars, pvars, gvars, cvars, rvars >>

NextExtract ==
    \/ RunExtractFramesSmart
    \/ RunDoExtraction

SpecExtract == InitExtract /\ [][NextExtract]_vars

\* ------------------------------------------------------------- C25
\* Frames of grey levels g1 and g2 are less similar than thr thousandths: their
\* absolute difference exceeds 255 * (1 - thr / 1000).
LessSimilarThan(g1, g2, thr) == 1000 * Abs(g1 - g2) > 255 * (1000 - thr)

\* C25: the frames kept by extract_frames_smart start with the first frame and
\* end with the last frame of the GIF, their indices are strictly increasing,
\* and every kept frame other than the first and a force-added last one has
\* similarity below min_similarity to the frame kept before it.
C25_KeptFrames ==
    extract.cli.done =>
        LET kept == extract.cli.kept
            n == Len(kept)
        IN  /\ n >= 1
            /\ kept[1] = 0
            /\ kept[n] = Len(extract.frames) - 1
            /\ \A j \in 2..n : kept[j - 1] < kept[j]
            /\ \A j \in 2..n :
                  (j = n /\ extract.cli.forced) \/
                  LessSimilarThan(extract.frames[kept[j - 1] + 1],
                                  extract.frames[kept[j] + 1],
                                  extract.min_similarity)

\* a run that kept a frame by similarity, skipped one, and force-added the
\* last frame, which is as similar as can be to the frame kept before it
C25_Witness ==
    /\ extract.cli.done
    /\ extract.cli.forced
    /\ Len(extract.cli.kept) = 3
    /\ Len(extract.frames) = MaxGifFrames
    /\ extract.frames[extract.cli.kept[2] + 1] = extract.frames[MaxGifFrames]

\* ------------------------------------------------------------- C27
\* C27: for the same GIF, target frame count and similarity threshold the GUI
\* extractor and the command-line extractor keep the same sequence of frames,
\* the appended last frame included.
C27_ExtractorsAgree ==
    (extract.cli.done /\ extract.gui.done) =>
        /\ extract.gui.kept = extract.cli.kept
        /\ extract.gui.forced = extract.cli.forced

\* both have run on a GIF whose last frame shows what the frame kept before it
\* shows, and both appended it
C27_Witness ==
    /\ extract.cli.done
    /\ extract.gui.done
    /\ extract.gui.forced
    /\ Len(extract.gui.kept) >= 2
    /\ extract.frames[extract.gui.kept[Len(extract.gui.kept) - 1] + 1] =
           extract.frames[Len(extract.frames)]


\* ------------------------------------------------------------- C26
\* The colours that occur in a sequence of pixels.
ColoursOf(pixels) == { pixels[i] : i \in 1..Len(pixels) }

\* C26: every pixel of the returned quantized image has the colour of one of
\* the K rows of the returned palette, so the image holds at most K colours.
C26_PixelsFromPalette ==
    pc = "done" =>
        /\ Len(palette) = num_colors
        /\ \A i \in 1..Len(quantized) :
              \E k \in 1..num_colors : quantized[i] = palette[k]
        /\ Cardinality(ColoursOf(quantized)) <= num_colors

\* a returned image of K >= 2 colours, one of them a centroid with a channel
\* of fractional part at least one half
C26_Witness ==
    /\ pc = "done"
    /\ num_colors >= 2
    /\ Cardinality(ColoursOf(quantized)) = num_colors
    /\ \E i \in 1..Len(quantized) : \E ch \in 1..3 :
          LET c == cluster_centers[pixel_assignments[i]]
          IN  2 * (c.s[ch] % c.n) >= c.n


\* ------------------------------------------------------------- PixelArtGUI spec
\* PixelArtGUI (src/gui_pixelart.py): the handlers of the UI thread and the
\* worker threads of process_frames.  Worker w is the w-th one started; its
\* ProcessingPopup is a Toplevel that takes the input grab (grab_set) and has
\* no WM_DELETE_WINDOW handler, so the window's close button destroys it.
MaxWorkers == 3

Workers == 1..Len(gui.workers)
Running == { w \in Workers : gui.workers[w].state = "running" }

InitGui ==
    /\ GuiIdle
    /\ KmeansIdle
    /\ DownsampleIdle
    /\ BatchIdle
    /\ AsciiIdle
    /\ PipelineIdle
    /\ ExtractIdle
    /\ ConverterIdle
    /\ ResizeIdle

GuiOthersUnchanged ==
    UNCHANGED << kvars, dvars, bvars, avars, pvars, evars, cvars, rvars >>

\* The grab after the popup of worker w is destroyed.
GrabWithout(w) == IF gui.grab = w THEN 0 ELSE gui.grab

\* Lines 407-440: select_folder, reachable while no popup holds the grab.
\* found: the folder chosen holds image files.
SelectFolder(found) ==
    /\ gui.grab = 0
    /\ gui' = IF found
              THEN [gui EXCEPT !.frame_files = TRUE, !.process_btn = "normal",
                               !.dialog = "none"]
              ELSE [gui EXCEPT !.frame_files = FALSE, !.dialog = "no_frames"]
    /\ GuiOthersUnchanged

\* Lines 442-457: process_frames, the command of the enabled process button.
ProcessFrames ==
    /\ gui.grab = 0
    /\ gui.process_btn = "normal"
    /\ Len(gui.workers) < MaxWorkers
    /\ gui' = IF ~gui.frame_files
              THEN [gui EXCEPT !.dialog = "select_folder_first"]
              ELSE [gui EXCEPT !.grab = Len(gui.workers) + 1,
                               !.process_btn = "disabled",
                               !.workers = Append(@, [state |-> "running",
                                                      popup |-> "open"]),
                               !.dialog = "none"]
    /\ GuiOthersUnchanged

\* Lines 15-19: the user closes the popup window of worker w.
ClosePopupWindow(w) ==
    /\ w \in Workers
    /\ gui.workers[w].popup = "open"
    /\ gui' = [gui EXCEPT !.workers[w].popup = "destroyed",
                          !.grab = GrabWithout(w)]
    /\ GuiOthersUnchanged

\* Lines 459-525: do_processing of worker w ends, by the last statement of the
\* try block or by the except clause.
DoProcessing(w, raised) ==
    /\ w \in Running
    /\ gui' = [gui EXCEPT !.workers[w].state =
                  IF raised THEN "error_scheduled" ELSE "complete_scheduled"]
    /\ GuiOthersUnchanged

\* Lines 527-540: processing_complete, run by the UI thread.
ProcessingComplete(w) ==
    /\ w \in Workers
    /\ gui.workers[w].state = "complete_scheduled"
    /\ gui' = [gui EXCEPT !.workers[w] = [state |-> "completed",
                                          popup |-> "destroyed"],
                          !.grab = GrabWithout(w),
                          !.process_btn = "normal",
                          !.dialog = "success"]
    /\ GuiOthersUnchanged

\* Lines 542-546: processing_error, run by the UI thread.
ProcessingError(w) ==
    /\ w \in Workers
    /\ gui.workers[w].state = "error_scheduled"
    /\ gui' = [gui EXCEPT !.workers[w] = [state |-> "failed",
                                          popup |-> "destroyed"],
                          !.grab = GrabWithout(w),
                          !.process_btn = "normal",
                          !.dialog = "error"]
    /\ GuiOthersUnchanged

NextGui ==
    \/ \E found \in BOOLEAN : SelectFolder(found)
    \/ ProcessFrames
    \/ \E w \in 1..MaxWorkers : ClosePopupWindow(w)
    \/ \E w \in 1..MaxWorkers : \E raised \in BOOLEAN : DoProcessing(w, raised)
    \/ \E w \in 1..MaxWorkers : ProcessingComplete(w)
    \/ \E w \in 1..MaxWorkers : ProcessingError(w)

SpecGui == InitGui /\ [][NextGui]_vars

\* ------------------------------------------------------------- C28
\* C28: at most one processing worker runs at any time, and a worker that has
\* ended has had exactly one of processing_complete and processing_error run
\* or scheduled for it, which closes its popup.
C28_SingleWorker ==
    /\ Cardinality(Running) <= 1
    /\ \A w \in Workers :
          gui.workers[w].state \in {"completed", "failed"} =>
              gui.workers[w].popup = "destroyed"


\* ------------------------------------------------------------- ASCIIConverterGUI spec
\* ASCIIConverterGUI.convert_all (src/gui_ascii_converter.py): the handler of
\* the UI thread and the threads it starts.  A worker is in its try block
\* ("try"), past it and before line 354 ("finally"), between lines 354 and
\* 355 ("reset"), or over ("ended"); line 355 is a call into Tk that the
\* worker makes after it has cleared the flag.
MaxConvWorkers == 4

ConvWorkers == 1..Len(conv.workers)
Alive == { w \in ConvWorkers : conv.workers[w] # "ended" }

InitConverter ==
    /\ ConverterIdle
    /\ KmeansIdle
    /\ DownsampleIdle
    /\ BatchIdle
    /\ AsciiIdle
    /\ PipelineIdle
    /\ ExtractIdle
    /\ GuiIdle
    /\ ResizeIdle

ConvOthersUnchanged ==
    UNCHANGED << kvars, dvars, bvars, avars, pvars, evars, gvars, rvars >>

\* Lines 301-359: convert_all.  has_files: get_frame_files found images.
ConvertAll(has_files) ==
    /\ Len(conv.workers) < MaxConvWorkers
    /\ conv' = IF ~has_files
               THEN [conv EXCEPT !.dialog = "no_frames"]
               ELSE IF conv.processing
                    THEN [conv EXCEPT !.dialog = "busy"]
                    ELSE [conv EXCEPT !.processing = TRUE,
                                      !.workers = Append(@, "try"),
                                      !.dialog = "none"]
    /\ ConvOthersUnchanged

\* Lines 321-351: the try block of worker w ends, normally (after the
\* messagebox of line 347) or in the except clause (lines 349-351).
TryBlockEnds(w, raised) ==
    /\ w \in ConvWorkers
    /\ conv.workers[w] = "try"
    /\ conv' = [conv EXCEPT !.workers[w] = "finally",
                            !.dialog = IF raised THEN "error" ELSE "success"]
    /\ ConvOthersUnchanged

\* Line 354: self.processing = False.
ResetFlag(w) ==
    /\ w \in ConvWorkers
    /\ conv.workers[w] = "finally"
    /\ conv' = [conv EXCEPT !.workers[w] = "reset", !.processing = FALSE]
    /\ ConvOthersUnchanged

\* Line 355: self.progress['value'] = 0, then the thread is over.
ResetProgress(w) ==
    /\ w \in ConvWorkers
    /\ conv.workers[w] = "reset"
    /\ conv' = [conv EXCEPT !.workers[w] = "ended"]
    /\ ConvOthersUnchanged

NextConverter ==
    \/ \E has_files \in BOOLEAN : ConvertAll(has_files)
    \/ \E w \in 1..MaxConvWorkers : \E raised \in BOOLEAN : TryBlockEnds(w, raised)
    \/ \E w \in 1..MaxConvWorkers : ResetFlag(w)
    \/ \E w \in 1..MaxConvWorkers : ResetProgress(w)

SpecConverter == InitConverter /\ [][NextConverter]_vars

\* ------------------------------------------------------------- C29
\* C29: the processing flag is true exactly while a convert_all worker is
\* running, so that no two workers run at the same time.
C29_FlagWhileWorkerRuns ==
    /\ conv.processing <=> Alive # {}
    /\ Cardinality(Alive) <= 1


\* ------------------------------------------------------------- resize spec
\* resize_with_averaging (src/asciiart_converter.py), for a source array of
\* size source = <<W, H>> and a target of size target = <<w, h>>.
ResizeSources == (1..MaxSrc) \X (1..MaxSrc)
ResizeTargets == (1..MaxTarget) \X (1..MaxTarget)

\* y1 = (j * original_height) // target_height and
\* y2 = ((j + 1) * original_height) // target_height, for j = 0..target-1:
\* the slice y1:y2 of each target index, as <<y1, y2>>.
BlockRanges(original, target) ==
    [j \in 1..target |->
        << ((j - 1) * original) \div target, (j * original) \div target >>]

InitResize ==
    /\ resize \in { [status |-> "pending", source |-> s, target |-> t,
                     rows |-> << >>, cols |-> << >>] :
                       s \in ResizeSources, t \in ResizeTargets }
    /\ KmeansIdle
    /\ DownsampleIdle
    /\ BatchIdle
    /\ AsciiIdle
    /\ PipelineIdle
    /\ ExtractIdle
    /\ GuiIdle
    /\ ConverterIdle

\* Lines 127-147: one call of resize_with_averaging.
ResizeWithAveraging ==
    /\ resize.status = "pending"
    /\ resize' = [resize EXCEPT
                     !.status = "done",
                     !.rows = BlockRanges(resize.source[2], resize.target[2]),
                     !.cols = BlockRanges(resize.source[1], resize.target[1])]
    /\ UNCHANGED << kvars, dvars, bvars, avars, pvars, evars, gvars, cvars >>

NextResize == ResizeWithAveraging

SpecResize == InitResize /\ [][NextResize]_vars

\* ------------------------------------------------------------- C30
\* The slices lo:hi of `ranges` are non-empty, lie within 0..original and
\* follow one another from 0 to original with no gap and no overlap.
TilesNonEmpty(ranges, original) ==
    /\ \A j \in 1..Len(ranges) :
          /\ ranges[j][1] < ranges[j][2]
          /\ 0 <= ranges[j][1]
          /\ ranges[j][2] <= original
    /\ ranges[1][1] = 0
    /\ ranges[Len(ranges)][2] = original
    /\ \A j \in 1..(Len(ranges) - 1) : ranges[j][2] = ranges[j + 1][1]

\* C30: for all positive source and target dimensions the source row range
\* and the source column range of every target cell hold at least one index,
\* stay within the source, and tile it without gaps or overlap.
C30_BlocksNonEmpty ==
    resize.status = "done" =>
        /\ TilesNonEmpty(resize.rows, resize.source[2])
        /\ TilesNonEmpty(resize.cols, resize.source[1])

=============================================================================
